---- MODULE Spec2Model ----
(***************************************************************************)
(* Model of the AI-visibility pipeline: the analyze route creates an       *)
(* analysis with its queries, processAnalysis runs the queries in batches  *)
(* and rounds, updateAnalysisProgress recomputes the progress after each   *)
(* round and calculateAllMetrics aggregates and completes the analysis.    *)
(*                                                                         *)
(* The store (supabase client) returns {data, error}; it does not throw.   *)
(* A call whose result the code does not inspect therefore fails silently: *)
(* the write is not applied and the caller goes on.                        *)
(***************************************************************************)
EXTENDS Integers, Sequences, FiniteSets, TLC

\* ------------------------------------------------------------------ bounds
\* Largest number of query rows the analyze route inserts.
MaxQueries == 3
\* Largest number of query rows when processAnalysis is called a second time.
MaxReinvokeQueries == 1
\* Largest number of store calls that return an error during one behaviour.
MaxStoreErrors == 1
\* Largest number of topic rows the analyze route inserts.
MaxTopics == 1
\* BATCH_CONFIG.QUERIES_PER_BATCH is 5 and BATCH_CONFIG.CONCURRENT_BATCHES is
\* 10 in batch-processor.ts; both are scaled down here so that several batches
\* and several rounds occur with MaxQueries queries.
QUERIES_PER_BATCH == 2
CONCURRENT_BATCHES == 1

\* --------------------------------------------------------------- constants
MAX_RETRIES == 3

\* processAnalysis is exported: "a" is the call the analyze route makes,
\* "b" a further call of the same function for the same analysis.
Invocations == {"a", "b"}

QIds == 1..MaxQueries
\* createBatches makes at most one batch per query.
BIds == 1..MaxQueries

VARIABLES
  \* ---- store: analyses row
  aStatus,      \* "none" before the insert, then pending/processing/completed/failed
  aProgress,    \* analyses.progress
  \* ---- store: queries rows
  nQueries,     \* number of query rows of the analysis
  nTopics,      \* number of topic rows of the analysis
  qStatus,      \* queries.status, "absent" for an id that has no row
  qErrMsg,      \* queries.error_message: "null", "query" (pipeline error), "batch" (lastError)
  qBrands,      \* length of queries.brands_mentioned (0 while null)
  qSites,       \* length of queries.websites_cited (0 while null)
  \* ---- store: derived tables, written by calculateAllMetrics
  agg,          \* subset of {"competitors", "sources", "topics"} already written
  \* ---- environment
  apiKey,       \* OPENROUTER_API_KEY is configured
  storeErrs,    \* store calls that returned an error so far
  \* ---- analyze route
  rpc,          \* position of POST
  \* ---- processAnalysis, per invocation
  pc,           \* position of processAnalysis
  batches,      \* the batches created from the fetched queries
  roundI,       \* loop variable i of processBatchesConcurrently
  bst,          \* per batch: state of processSingleBatch
  attempt,      \* per batch: loop variable attempt of processSingleBatch
  tpc,          \* per query: position of its store/pipeline task
  tres,         \* per query: the result its pipeline is about to save
  prog,         \* local variable progress of updateAnalysisProgress
  mq,           \* calculateAllMetrics: what it derived from the fetched queries
  topicI,       \* calculateAllMetrics: topics already updated by the topic loop
  \* ---- history
  qWrites,      \* per query row: number of applied writes of a terminal status
  startStatus,  \* per invocation: analyses.status when processAnalysis was called
  \* ---- functions checked on their own: the call under way, NoCall if none
  cb,           \* createBatches: its arguments and the batches it returned
  fr,           \* fetchWithRetry: client, loop variable, responses, result
  bq,           \* processBatchQueries: the pipeline of one query, step by step
  db,           \* detectBrandInAnswer: its arguments and what it returned
  gv,           \* getQueryVisibility: its argument and what it returned
  cm            \* the calculations of calculateAllMetrics: rows and results

\* The state of the pipeline: the store, the analyze route, processAnalysis.
pipelineVars == <<aStatus, aProgress, nQueries, nTopics, qStatus, qErrMsg, qBrands,
                  qSites, agg, apiKey, storeErrs, rpc, pc, batches, roundI, bst,
                  attempt, tpc, tres, prog, mq, topicI, qWrites, startStatus>>

\* The calls of the functions checked on their own.
functionVars == <<cb, fr, bq, db, gv, cm>>

vars == <<pipelineVars, functionVars>>

\* What no step of the pipeline changes: the configuration, and the calls of
\* the functions checked on their own.
env == <<apiKey, functionVars>>

analysisRow == <<aStatus, aProgress>>
queryRows == <<qStatus, qErrMsg, qBrands, qSites, qWrites>>
created == <<nQueries, nTopics>>
batchVars == <<batches, roundI, bst, attempt, tpc, tres>>
metricVars == <<prog, mq, topicI>>

Terminal == {"completed", "failed"}

\* ----------------------------------------------------------------- helpers
Min(x, y) == IF x < y THEN x ELSE y

\* One call of the store. ok = FALSE: the call returns {data: null, error}.
StoreCall(ok) ==
  /\ ok \in BOOLEAN
  /\ ~ok => storeErrs < MaxStoreErrors
  /\ storeErrs' = IF ok THEN storeErrs ELSE storeErrs + 1

\* A loop that stops before a last batch of fewer than batchSize queries:
\* for (let i = 0; i + batchSize <= queries.length; i += batchSize).
RECURSIVE createFullBatchesFrom(_, _, _)
createFullBatchesFrom(queries, batchSize, i) ==
  IF i + batchSize <= Len(queries)
    THEN <<[batchId |-> (i \div batchSize) + 1,
            queries |-> SubSeq(queries, i + 1, i + batchSize)]>>
         \o createFullBatchesFrom(queries, batchSize, i + batchSize)
    ELSE <<>>

\* for (let i = 0; i < queries.length; i += batchSize) batches.push({...})
RECURSIVE createBatchesFrom(_, _, _)
createBatchesFrom(queries, batchSize, i) ==
  IF i < Len(queries)
    THEN <<[batchId |-> (i \div batchSize) + 1,
            queries |-> SubSeq(queries, i + 1, Min(i + batchSize, Len(queries)))]>>
         \o createBatchesFrom(queries, batchSize, i + batchSize)
    ELSE <<>>

createBatches(queries, batchSize) == createBatchesFrom(queries, batchSize, 0)

\* The rows .select('*').eq('analysis_id', id).order('created_at') returns:
\* the ids of the analysis's query rows, oldest first.
FetchedQueries == [k \in 1..nQueries |-> k]

Range(seq) == {seq[k] : k \in 1..Len(seq)}

\* The queries of batch number b of invocation i.
BatchQueries(i, b) == Range(batches[i][b].queries)

\* batches.slice(i): every batch from i on, with no limit on their number.
RoundBatchesUnlimited(i) ==
  {b \in 1..Len(batches[i]) : roundI[i] < b}

\* batches.slice(i, i + CONCURRENT_BATCHES), as batch numbers.
RoundBatches(i) ==
  {b \in 1..Len(batches[i]) : roundI[i] < b /\ b <= roundI[i] + CONCURRENT_BATCHES}

\* Math.round(x / y * 100) for integers x >= 0, y > 0: round half up.
RoundPercent(x, y) == (200 * x + y) \div (2 * y)

\* What a query pipeline saves: the row's status, error_message, and the
\* lengths of brands_mentioned and websites_cited.
NoResult == [status |-> "none", err |-> "null", brands |-> 0, sites |-> 0]

\* ---------------------------------------------------------------- initial
InitPipeline ==
  /\ aStatus = "none"
  /\ aProgress = 0
  /\ nQueries = 0
  /\ nTopics = 0
  /\ qStatus = [q \in QIds |-> "absent"]
  /\ qErrMsg = [q \in QIds |-> "null"]
  /\ qBrands = [q \in QIds |-> 0]
  /\ qSites = [q \in QIds |-> 0]
  /\ agg = {}
  /\ apiKey \in BOOLEAN
  /\ storeErrs = 0
  /\ rpc = "insertAnalysis"
  /\ pc = [i \in Invocations |-> "idle"]
  /\ batches = [i \in Invocations |-> <<>>]
  /\ roundI = [i \in Invocations |-> 0]
  /\ bst = [i \in Invocations |-> [b \in BIds |-> "idle"]]
  /\ attempt = [i \in Invocations |-> [b \in BIds |-> 0]]
  /\ tpc = [i \in Invocations |-> [q \in QIds |-> "idle"]]
  /\ tres = [i \in Invocations |-> [q \in QIds |-> NoResult]]
  /\ prog = [i \in Invocations |-> 0]
  /\ mq = [i \in Invocations |-> "none"]
  /\ topicI = [i \in Invocations |-> 0]
  /\ qWrites = [q \in QIds |-> 0]
  /\ startStatus = [i \in Invocations |-> "none"]

\* The value of a call variable when its function is not called.
NoCall == [called |-> FALSE]

\* No function is called on its own.
FunctionsIdle ==
  /\ cb = NoCall
  /\ fr = NoCall
  /\ bq = NoCall
  /\ db = NoCall
  /\ gv = NoCall
  /\ cm = NoCall

Init == InitPipeline /\ FunctionsIdle

\* ------------------------------------------------- POST /api/analyze (route)
\* insert({... status: 'pending', progress: 0}); an insert error is thrown and
\* answered with a 500.
RouteInsertAnalysis ==
  /\ rpc = "insertAnalysis"
  /\ \E ok \in BOOLEAN :
       /\ StoreCall(ok)
       /\ IF ok
            THEN /\ aStatus' = "pending"
                 /\ aProgress' = 0
                 /\ rpc' = "insertQueries"
            ELSE /\ UNCHANGED analysisRow
                 /\ rpc' = "error500"
  /\ UNCHANGED <<created, queryRows, agg, env, pc, batchVars, metricVars,
                 startStatus>>

\* The loop over topicsData.topics: one topic row and its query rows
\* (status 'pending') per topic; t topics holding n queries together. An
\* insert error at topic t ends the route with the rows of the earlier topics
\* in place (n queries then), and the row of topic t too when it was the
\* insert of its queries that failed.
RouteInsertQueries(maxN) ==
  /\ rpc = "insertQueries"
  /\ \E t \in 0..MaxTopics, n \in 0..maxN, ok \in BOOLEAN :
       /\ (t = 0) => (n = 0 /\ ok)
       /\ StoreCall(ok)
       /\ IF ok
            THEN /\ nTopics' = t
                 /\ nQueries' = n
                 /\ qStatus' = [q \in QIds |-> IF q <= n THEN "pending" ELSE "absent"]
                 /\ rpc' = "progress25"
            ELSE /\ nTopics' \in {t - 1, t}
                 /\ LET m == IF t = 1 THEN 0 ELSE n
                    IN /\ nQueries' = m
                       /\ qStatus' = [q \in QIds |->
                                        IF q <= m THEN "pending" ELSE "absent"]
                 /\ rpc' = "error500"
  /\ UNCHANGED <<analysisRow, qErrMsg, qBrands, qSites, qWrites, agg, env, pc,
                 batchVars, metricVars, startStatus>>

\* update({progress: 25}); the result of the call is not inspected.
RouteProgress25 ==
  /\ rpc = "progress25"
  /\ \E ok \in BOOLEAN :
       /\ StoreCall(ok)
       /\ aProgress' = IF ok THEN 25 ELSE aProgress
  /\ rpc' = "kickoff"
  /\ UNCHANGED <<aStatus, created, queryRows, agg, env, pc, batchVars,
                 metricVars, startStatus>>

\* processAnalysis(analysis.id).catch(...): not awaited; the route answers.
RouteKickoff ==
  /\ rpc = "kickoff"
  /\ rpc' = "responded"
  /\ pc' = [pc EXCEPT !["a"] = "fetchAnalysis"]
  /\ startStatus' = [startStatus EXCEPT !["a"] = aStatus]
  /\ UNCHANGED <<analysisRow, created, queryRows, agg, env, storeErrs,
                 batchVars, metricVars>>

\* ------------------------------------------------------------ processAnalysis
\* A further call of the exported processAnalysis for the same analysis.
Reinvoke(i) ==
  /\ i = "b"
  /\ pc[i] = "idle"
  /\ aStatus # "none"
  /\ rpc = "responded"
  /\ pc' = [pc EXCEPT ![i] = "fetchAnalysis"]
  /\ startStatus' = [startStatus EXCEPT ![i] = aStatus]
  /\ UNCHANGED <<analysisRow, created, queryRows, agg, env, storeErrs, rpc,
                 batchVars, metricVars>>

\* if (analysis.status !== 'pending') return;
StatusGuardPasses(status) == status = "pending"

\* 1. select('institution_name, status').single(); the error is thrown into
\* the catch block, a status other than pending returns.
FetchAnalysis(i) ==
  /\ pc[i] = "fetchAnalysis"
  /\ \E ok \in BOOLEAN :
       /\ StoreCall(ok)
       /\ pc' = [pc EXCEPT ![i] =
                   IF ~ok THEN "catch"
                   ELSE IF StatusGuardPasses(aStatus) THEN "markProcessing"
                   ELSE "returned"]
  /\ UNCHANGED <<analysisRow, created, queryRows, agg, env, rpc, batchVars,
                 metricVars, startStatus>>

\* 2. update({status: 'processing'}); the result of the call is not inspected.
MarkProcessing(i) ==
  /\ pc[i] = "markProcessing"
  /\ \E ok \in BOOLEAN :
       /\ StoreCall(ok)
       /\ aStatus' = IF ok THEN "processing" ELSE aStatus
  /\ pc' = [pc EXCEPT ![i] = "fetchQueries"]
  /\ UNCHANGED <<aProgress, created, queryRows, agg, env, rpc, batchVars,
                 metricVars, startStatus>>

\* 3. and 4. select('*') of the queries; queriesError and an empty list are
\* thrown; otherwise the batches are created.
FetchQueries(i) ==
  /\ pc[i] = "fetchQueries"
  /\ \E ok \in BOOLEAN :
       /\ StoreCall(ok)
       /\ IF ok /\ Len(FetchedQueries) # 0
            THEN /\ batches' = [batches EXCEPT ![i] =
                                  createBatches(FetchedQueries, QUERIES_PER_BATCH)]
                 /\ roundI' = [roundI EXCEPT ![i] = 0]
                 /\ pc' = [pc EXCEPT ![i] = "roundStart"]
            ELSE /\ pc' = [pc EXCEPT ![i] = "catch"]
                 /\ UNCHANGED <<batches, roundI>>
  /\ UNCHANGED <<analysisRow, created, queryRows, agg, env, rpc, bst, attempt,
                 tpc, tres, metricVars, startStatus>>

\* ------------------------------------------------- processBatchesConcurrently
\* roundBatches.map(batch => processSingleBatch(...)): every batch of the
\* round starts and issues the update({status: 'processing'}) of its queries.
RoundStart(i) ==
  /\ pc[i] = "roundStart"
  /\ pc' = [pc EXCEPT ![i] = "roundWait"]
  /\ bst' = [bst EXCEPT ![i] =
               [b \in BIds |-> IF b \in RoundBatches(i) THEN "marking" ELSE @[b]]]
  /\ tpc' = [tpc EXCEPT ![i] =
               [q \in QIds |->
                  IF \E b \in RoundBatches(i) : q \in BatchQueries(i, b)
                    THEN "mark" ELSE @[q]]]
  /\ UNCHANGED <<analysisRow, created, queryRows, agg, env, storeErrs, rpc,
                 batches, roundI, attempt, tres, metricVars, startStatus>>

\* One of the updates of Promise.all(batch.queries.map(q => update({status:
\* 'processing'}))) returns; its result is not inspected.
MarkQuery(i, q) ==
  /\ tpc[i][q] = "mark"
  /\ \E ok \in BOOLEAN :
       /\ StoreCall(ok)
       /\ qStatus' = IF ok THEN [qStatus EXCEPT ![q] = "processing"] ELSE qStatus
  /\ tpc' = [tpc EXCEPT ![i][q] = "marked"]
  /\ UNCHANGED <<analysisRow, created, qErrMsg, qBrands, qSites, qWrites, agg,
                 env, rpc, pc, batches, roundI, bst, attempt, tres, metricVars,
                 startStatus>>

\* ---------------------------------------------------------- processSingleBatch
\* if (!OPENROUTER_API_KEY) throw ...; if (queries.length === 0 ||
\* queries.length > 5) throw ...: processBatchQueries rejects before it starts
\* any query. The literal 5 is the batch size, scaled like QUERIES_PER_BATCH.
RejectsAtEntry(key, len) == ~key \/ len = 0 \/ len > QUERIES_PER_BATCH

\* A catch block that sleeps and tries again whatever the attempt.
AttemptFailedRetries(i, b, att) ==
  /\ bst' = [bst EXCEPT ![i][b] = "sleeping"]
  /\ UNCHANGED tpc

\* catch (error) of the retry loop: sleep and try again while attempt <
\* MAX_RETRIES; after the last attempt leave the loop and issue the
\* update({status: 'failed', error_message}) of every query of the batch.
AttemptFailed(i, b, att) ==
  IF att < MAX_RETRIES
    THEN /\ bst' = [bst EXCEPT ![i][b] = "sleeping"]
         /\ UNCHANGED tpc
    ELSE /\ bst' = [bst EXCEPT ![i][b] = "failing"]
         /\ tpc' = [tpc EXCEPT ![i] =
                      [q \in QIds |-> IF q \in BatchQueries(i, b)
                                        THEN "markFailed" ELSE @[q]]]

\* One iteration of for (attempt = 1; attempt <= MAX_RETRIES; attempt++): it
\* starts when the marking of the batch has returned, or after the sleep. It
\* calls processBatchQueries, which rejects at once or starts the pipeline of
\* every query of the batch in parallel.
BeginAttempt(i, b) ==
  /\ b \in 1..Len(batches[i])
  /\ \/ bst[i][b] = "marking" /\ \A q \in BatchQueries(i, b) : tpc[i][q] = "marked"
     \/ bst[i][b] = "sleeping"
  /\ attempt' = [attempt EXCEPT ![i][b] = @ + 1]
  /\ IF RejectsAtEntry(apiKey, Len(batches[i][b].queries))
       THEN AttemptFailed(i, b, attempt[i][b] + 1)
       ELSE /\ bst' = [bst EXCEPT ![i][b] = "running"]
            /\ tpc' = [tpc EXCEPT ![i] =
                         [q \in QIds |-> IF q \in BatchQueries(i, b)
                                           THEN "fetching" ELSE @[q]]]
  /\ UNCHANGED <<analysisRow, created, queryRows, agg, env, storeErrs, rpc, pc,
                 batches, roundI, tres, metricVars, startStatus>>

\* --------------------------------------------------------- processBatchQueries
\* What the external calls of one query pipeline come to:
\*   "ok"      the answer was fetched and parsed, the validation returned
\*   "notOk"   !response.ok
\*   "invalid" no data.choices[0].message.content
\*   "threw"   fetchWithRetry or extractAndParseJSON threw
FetchOutcomes == {"ok", "notOk", "invalid", "threw"}

\* The row each branch of the pipeline saves.
PipelineResult(outcome, answer) ==
  CASE outcome = "ok" ->
         [status |-> "completed", err |-> "null", brands |-> answer.brands,
          sites |-> answer.sites]
    [] outcome \in {"notOk", "invalid"} ->
         [status |-> "failed", err |-> "null", brands |-> 0, sites |-> 0]
    [] OTHER ->
         [status |-> "failed", err |-> "query", brands |-> 0, sites |-> 0]

\* A pipeline without the catch block: what is thrown rejects the query's
\* promise.
PipelineRejectsOnThrow(outcome) == outcome = "threw"

\* try { ... } catch (error) { ... return errorResult } around the whole
\* pipeline of a query: no outcome makes the query's promise reject.
PipelineRejects(outcome) == FALSE

\* The external calls of the pipeline of query q (answer request, parse,
\* validation request) have come to an outcome; the update of the row follows.
QueryFetch(i, q) ==
  /\ tpc[i][q] = "fetching"
  \* The answer, as the lengths of its brands_mentioned and websites_cited
  \* lists: it names nothing, or names a brand and cites a site.
  /\ \E outcome \in FetchOutcomes,
        answer \in {[brands |-> 0, sites |-> 0], [brands |-> 1, sites |-> 1]} :
       /\ outcome # "ok" => answer.brands = 0
       /\ IF PipelineRejects(outcome)
            THEN /\ tpc' = [tpc EXCEPT ![i][q] = "rejected"]
                 /\ UNCHANGED tres
            ELSE /\ tpc' = [tpc EXCEPT ![i][q] = "saving"]
                 /\ tres' = [tres EXCEPT ![i][q] =
                               PipelineResult(outcome, answer)]
  /\ UNCHANGED <<analysisRow, created, queryRows, agg, env, storeErrs, rpc, pc,
                 batches, roundI, bst, attempt, metricVars, startStatus>>

\* update({answer, brands_mentioned, ..., status, processed_at}).eq('id', id)
\* returns; its result is not inspected. The pipeline returns its result.
QuerySave(i, q) ==
  /\ tpc[i][q] = "saving"
  /\ \E ok \in BOOLEAN :
       /\ StoreCall(ok)
       /\ IF ok
            THEN /\ qStatus' = [qStatus EXCEPT ![q] = tres[i][q].status]
                 /\ qErrMsg' = [qErrMsg EXCEPT ![q] =
                                  IF tres[i][q].err = "null" THEN @ ELSE tres[i][q].err]
                 /\ qBrands' = [qBrands EXCEPT ![q] = tres[i][q].brands]
                 /\ qSites' = [qSites EXCEPT ![q] = tres[i][q].sites]
                 /\ qWrites' = [qWrites EXCEPT ![q] = @ + 1]
            ELSE UNCHANGED queryRows
  /\ tpc' = [tpc EXCEPT ![i][q] = "done"]
  /\ UNCHANGED <<analysisRow, created, agg, env, rpc, pc, batches, roundI, bst,
                 attempt, tres, metricVars, startStatus>>

\* await Promise.all(queryPromises) in processBatchQueries, awaited by the try
\* block of processSingleBatch: resolved, the batch returns; rejected, the
\* catch block of the retry loop runs.
BatchSettle(i, b) ==
  /\ b \in 1..Len(batches[i])
  /\ bst[i][b] = "running"
  /\ \A q \in BatchQueries(i, b) : tpc[i][q] \in {"done", "rejected"}
  /\ IF \E q \in BatchQueries(i, b) : tpc[i][q] = "rejected"
       THEN AttemptFailed(i, b, attempt[i][b])
       ELSE /\ bst' = [bst EXCEPT ![i][b] = "resolved"]
            /\ UNCHANGED tpc
  /\ UNCHANGED <<analysisRow, created, queryRows, agg, env, storeErrs, rpc, pc,
                 batches, roundI, attempt, tres, metricVars, startStatus>>

\* One of the updates of Promise.all(batch.queries.map(q => update({status:
\* 'failed', error_message: lastError.message, processed_at}))) returns; its
\* result is not inspected.
MarkFailed(i, q) ==
  /\ tpc[i][q] = "markFailed"
  /\ \E ok \in BOOLEAN :
       /\ StoreCall(ok)
       /\ IF ok
            THEN /\ qStatus' = [qStatus EXCEPT ![q] = "failed"]
                 /\ qErrMsg' = [qErrMsg EXCEPT ![q] = "batch"]
                 /\ qWrites' = [qWrites EXCEPT ![q] = @ + 1]
                 /\ UNCHANGED <<qBrands, qSites>>
            ELSE UNCHANGED queryRows
  /\ tpc' = [tpc EXCEPT ![i][q] = "failedDone"]
  /\ UNCHANGED <<analysisRow, created, agg, env, rpc, pc, batches, roundI, bst,
                 attempt, tres, metricVars, startStatus>>

\* throw lastError: processSingleBatch rejects once the updates have returned.
BatchReject(i, b) ==
  /\ b \in 1..Len(batches[i])
  /\ bst[i][b] = "failing"
  /\ \A q \in BatchQueries(i, b) : tpc[i][q] = "failedDone"
  /\ bst' = [bst EXCEPT ![i][b] = "rejected"]
  /\ UNCHANGED <<analysisRow, created, queryRows, agg, env, storeErrs, rpc, pc,
                 batches, roundI, attempt, tpc, tres, metricVars, startStatus>>

\* ------------------------------------------- the end of a round and progress
\* Promise.all in place of Promise.allSettled: the await rejects as soon as
\* one batch of the round has rejected.
AwaitRoundAll(states) ==
  IF "rejected" \in states THEN "rejected"
  ELSE IF states \subseteq {"resolved"} THEN "settled" ELSE "pending"

\* The promises of the round not awaited: the loop goes on at once.
AwaitRoundNotAwaited(states) == "settled"

\* await Promise.allSettled(batchPromises): "settled" once every batch of the
\* round has resolved or rejected, whichever it was; "pending" before.
AwaitRound(states) ==
  IF states \subseteq {"resolved", "rejected"} THEN "settled" ELSE "pending"

RoundSettle(i) ==
  /\ pc[i] = "roundWait"
  /\ LET r == AwaitRound({bst[i][b] : b \in RoundBatches(i)})
     IN /\ r # "pending"
        /\ pc' = [pc EXCEPT ![i] = IF r = "settled" THEN "progressRead" ELSE "catch"]
  /\ UNCHANGED <<analysisRow, created, queryRows, agg, env, storeErrs, rpc,
                 batchVars, metricVars, startStatus>>

\* A count of the completed and the failed queries alike.
CountsProcessed(status) == status \in Terminal

\* queries.filter(q => q.status === 'completed')
CountsForProgress(status) == status = "completed"

\* total > 0 ? Math.round((completed / total) * 100) : 0
ProgressOf(statuses) ==
  LET total == Cardinality({q \in QIds : statuses[q] # "absent"})
      completed == Cardinality({q \in QIds : CountsForProgress(statuses[q])})
  IN IF total > 0 THEN RoundPercent(completed, total) ELSE 0

\* i += CONCURRENT_BATCHES and the loop test i < totalBatches; after the last
\* round processAnalysis calls calculateAllMetrics.
AfterRound(i) ==
  /\ roundI' = [roundI EXCEPT ![i] = @ + CONCURRENT_BATCHES]
  /\ pc' = [pc EXCEPT ![i] =
              IF roundI[i] + CONCURRENT_BATCHES < Len(batches[i])
                THEN "roundStart" ELSE "metricsFetch"]

\* updateAnalysisProgress: select('status') of the queries; without data it
\* returns 0 and writes nothing.
ProgressRead(i) ==
  /\ pc[i] = "progressRead"
  /\ \E ok \in BOOLEAN :
       /\ StoreCall(ok)
       /\ IF ok
            THEN /\ prog' = [prog EXCEPT ![i] = ProgressOf(qStatus)]
                 /\ pc' = [pc EXCEPT ![i] = "progressWrite"]
                 /\ UNCHANGED roundI
            ELSE /\ AfterRound(i)
                 /\ UNCHANGED prog
  /\ UNCHANGED <<analysisRow, created, queryRows, agg, env, rpc, batches, bst,
                 attempt, tpc, tres, mq, topicI, startStatus>>

\* updateAnalysisProgress: update({progress, updated_at}); the result of the
\* call is not inspected.
ProgressWrite(i) ==
  /\ pc[i] = "progressWrite"
  /\ \E ok \in BOOLEAN :
       /\ StoreCall(ok)
       /\ aProgress' = IF ok THEN prog[i] ELSE aProgress
  /\ AfterRound(i)
  /\ UNCHANGED <<aStatus, created, queryRows, agg, env, rpc, batches, bst,
                 attempt, tpc, tres, metricVars, startStatus>>

\* --------------------------------------------------------- calculateAllMetrics
\* 1. select('*') of the queries; queriesError and an empty list are thrown.
\* What the later steps need of the rows: whether calculateCompetitorStats and
\* calculateTopSources return a non-empty list.
MetricsFetch(i) ==
  /\ pc[i] = "metricsFetch"
  /\ \E ok \in BOOLEAN :
       /\ StoreCall(ok)
       /\ IF ok /\ nQueries # 0
            THEN /\ mq' = [mq EXCEPT ![i] =
                             [competitors |-> \E q \in QIds : qBrands[q] > 0,
                              sources |-> \E q \in QIds : qSites[q] > 0]]
                 /\ pc' = [pc EXCEPT ![i] = "metricsUpdate"]
            ELSE /\ pc' = [pc EXCEPT ![i] = "catch"]
                 /\ UNCHANGED mq
  /\ UNCHANGED <<analysisRow, created, queryRows, agg, env, rpc, batchVars,
                 prog, topicI, startStatus>>

\* The progress left as the share of completed queries.
FinalProgressShare(statuses) ==
  RoundPercent(Cardinality({q \in QIds : statuses[q] = "completed"}),
               Cardinality({q \in QIds : statuses[q] # "absent"}))

\* progress: 100, // Set to 100% when metrics calculation completes
FinalProgress(statuses) == 100

\* 3. update({overall_visibility_score, ..., progress: 100, status:
\* 'completed', completed_at}); analysisUpdateError is thrown.
MetricsUpdate(i) ==
  /\ pc[i] = "metricsUpdate"
  /\ \E ok \in BOOLEAN :
       /\ StoreCall(ok)
       /\ IF ok
            THEN /\ aStatus' = "completed"
                 /\ aProgress' = FinalProgress(qStatus)
                 /\ pc' = [pc EXCEPT ![i] = "competitors"]
            ELSE /\ UNCHANGED analysisRow
                 /\ pc' = [pc EXCEPT ![i] = "catch"]
  /\ UNCHANGED <<created, queryRows, agg, env, rpc, batchVars, metricVars,
                 startStatus>>

\* 4. if (competitors.length > 0) upsert(...); competitorsError is thrown.
Competitors(i) ==
  /\ pc[i] = "competitors"
  /\ \E ok \in BOOLEAN :
       /\ ~mq[i].competitors => ok
       /\ StoreCall(ok)
       /\ agg' = IF ok /\ mq[i].competitors THEN agg \cup {"competitors"} ELSE agg
       /\ pc' = [pc EXCEPT ![i] = IF ok THEN "sources" ELSE "catch"]
  /\ UNCHANGED <<analysisRow, created, queryRows, env, rpc, batchVars,
                 metricVars, startStatus>>

\* 5. if (sources.length > 0) upsert(...); sourcesError is thrown.
Sources(i) ==
  /\ pc[i] = "sources"
  /\ \E ok \in BOOLEAN :
       /\ ~mq[i].sources => ok
       /\ StoreCall(ok)
       /\ agg' = IF ok /\ mq[i].sources THEN agg \cup {"sources"} ELSE agg
       /\ pc' = [pc EXCEPT ![i] = IF ok THEN "topicsFetch" ELSE "catch"]
  /\ UNCHANGED <<analysisRow, created, queryRows, env, rpc, batchVars,
                 metricVars, startStatus>>

\* 6. select('id') of the topics; topicsError is thrown.
TopicsFetch(i) ==
  /\ pc[i] = "topicsFetch"
  /\ \E ok \in BOOLEAN :
       /\ StoreCall(ok)
       /\ pc' = [pc EXCEPT ![i] = IF ok THEN "topicsUpdate" ELSE "catch"]
  /\ topicI' = [topicI EXCEPT ![i] = 0]
  /\ UNCHANGED <<analysisRow, created, queryRows, agg, env, rpc, batchVars,
                 prog, mq, startStatus>>

\* for (const topic of topics) update({visibility_percentage, ...});
\* topicUpdateError is thrown. After the last topic calculateAllMetrics and
\* processAnalysis return.
TopicsUpdate(i) ==
  /\ pc[i] = "topicsUpdate"
  /\ IF topicI[i] < nTopics
       THEN \E ok \in BOOLEAN :
              /\ StoreCall(ok)
              /\ topicI' = [topicI EXCEPT ![i] = IF ok THEN @ + 1 ELSE @]
              /\ pc' = [pc EXCEPT ![i] = IF ok THEN "topicsUpdate" ELSE "catch"]
              /\ UNCHANGED agg
       ELSE /\ agg' = agg \cup {"topics"}
            /\ pc' = [pc EXCEPT ![i] = "returned"]
            /\ UNCHANGED <<topicI, storeErrs>>
  /\ UNCHANGED <<analysisRow, created, queryRows, env, rpc, batchVars, prog,
                 mq, startStatus>>

\* A catch block that records the failure and returns normally, with no
\* throw error.
CatchReturns(i) ==
  /\ pc[i] = "catch"
  /\ \E ok \in BOOLEAN :
       /\ StoreCall(ok)
       /\ aStatus' = IF ok THEN "failed" ELSE aStatus
  /\ pc' = [pc EXCEPT ![i] = "returned"]
  /\ UNCHANGED <<aProgress, created, queryRows, agg, env, rpc, batchVars,
                 metricVars, startStatus>>

\* catch (error) of processAnalysis: update({status: 'failed'}), result not
\* inspected; throw error.
Catch(i) ==
  /\ pc[i] = "catch"
  /\ \E ok \in BOOLEAN :
       /\ StoreCall(ok)
       /\ aStatus' = IF ok THEN "failed" ELSE aStatus
  /\ pc' = [pc EXCEPT ![i] = "threw"]
  /\ UNCHANGED <<aProgress, created, queryRows, agg, env, rpc, batchVars,
                 metricVars, startStatus>>

\* -------------------------------------------------------------- specification
Route(maxN) ==
  \/ RouteInsertAnalysis
  \/ RouteInsertQueries(maxN)
  \/ RouteProgress25
  \/ RouteKickoff

Process(i) ==
  \/ FetchAnalysis(i)
  \/ MarkProcessing(i)
  \/ FetchQueries(i)
  \/ RoundStart(i)
  \/ \E q \in QIds : MarkQuery(i, q)
  \/ \E b \in BIds : BeginAttempt(i, b)
  \/ \E q \in QIds : QueryFetch(i, q)
  \/ \E q \in QIds : QuerySave(i, q)
  \/ \E b \in BIds : BatchSettle(i, b)
  \/ \E q \in QIds : MarkFailed(i, q)
  \/ \E b \in BIds : BatchReject(i, b)
  \/ RoundSettle(i)
  \/ ProgressRead(i)
  \/ ProgressWrite(i)
  \/ MetricsFetch(i)
  \/ MetricsUpdate(i)
  \/ Competitors(i)
  \/ Sources(i)
  \/ TopicsFetch(i)
  \/ TopicsUpdate(i)
  \/ Catch(i)

\* The program as the analyze route runs it: one call of processAnalysis.
Next == Route(MaxQueries) \/ Process("a")

Spec == Init /\ [][Next]_vars

\* The same with one further call of processAnalysis at any later time.
NextReinvoke ==
  \/ Route(MaxReinvokeQueries)
  \/ Reinvoke("b")
  \/ \E i \in Invocations : Process(i)

SpecReinvoke == Init /\ [][NextReinvoke]_vars

\* ------------------------------------------------ createBatches, on its own
\* Largest number of queries in a list given to createBatches.
MaxListLen == 11
\* Largest batch size given to createBatches; 5 is the size the program uses.
MaxBatchSize == 5

\* createBatches is called with a list of n query rows (the row k standing
\* for itself) and a batch size.
InitCreateBatches ==
  /\ InitPipeline
  /\ apiKey
  /\ \E n \in 0..MaxListLen, batchSize \in 1..MaxBatchSize :
       cb = [called |-> TRUE, queries |-> [k \in 1..n |-> k],
             batchSize |-> batchSize, returned |-> FALSE, batches |-> <<>>]
  /\ fr = NoCall
  /\ bq = NoCall
  /\ db = NoCall
  /\ gv = NoCall
  /\ cm = NoCall

\* The call returns.
CreateBatchesReturns ==
  /\ cb.called
  /\ ~cb.returned
  /\ cb' = [cb EXCEPT !.returned = TRUE,
                      !.batches = createBatches(cb.queries, cb.batchSize)]
  /\ UNCHANGED <<pipelineVars, fr, bq, db, gv, cm>>

SpecCreateBatches == InitCreateBatches /\ [][CreateBatchesReturns]_vars

\* ----------------------------------------------- fetchWithRetry, on its own
\* maxRetries = 3: the default of every fetchWithRetry; no caller passes one.
maxRetries == 3

FetchThrows(result) == result \in {"network", "abort"}

\* openrouter.ts and openai.ts pass controller.signal and a timeout;
\* perplexity.ts calls fetch(url, options) with no signal.
HasTimeout(client) == client \in {"openrouter", "openai"}

\* Only perplexity.ts has the branch if (response.status >= 500 &&
\* response.status < 600) before return response.
RetriesOn5xx(client) == client = "perplexity"

\* One iteration of the loop, for the loop variable i and the result of its
\* fetch: "retry" (continue, or fall out of the catch block, after a wait),
\* "return" (return response) or "throw" (throw error, the caught exception).
AfterFetch(client, i, result) ==
  IF FetchThrows(result)
    THEN IF i = maxRetries - 1 THEN "throw" ELSE "retry"
    ELSE IF result = "429" THEN "retry"
    ELSE IF result = "5xx" /\ RetriesOn5xx(client) /\ i < maxRetries - 1
      THEN "retry"
    ELSE "return"

Running == [kind |-> "running", status |-> "none", error |-> "none"]

\* A loop test that lets one more iteration in.
LoopContinuesOneMore(i) == i <= maxRetries

\* The loop test of for (let i = 0; i < maxRetries; i++).
LoopContinues(i) == i < maxRetries

InitFetchWithRetry ==
  /\ InitPipeline
  /\ apiKey
  /\ cb = NoCall
  /\ bq = NoCall
  /\ db = NoCall
  /\ gv = NoCall
  /\ cm = NoCall
  \* The three clients that define a fetchWithRetry.
  /\ \E client \in {"openrouter", "openai", "perplexity"} :
       fr = [called |-> TRUE, client |-> client, i |-> 0, responses |-> <<>>,
             late |-> <<>>, result |-> Running]

\* One iteration of for (let i = 0; i < maxRetries; i++). late tells whether
\* the request was still unanswered timeoutMs after it was issued: with
\* setTimeout(() => controller.abort(), timeoutMs) and signal:
\* controller.signal that is when fetch rejects with the AbortError, and
\* clearTimeout follows every earlier outcome; with no signal the request
\* goes on to whatever it comes to.
FetchAttempt ==
  /\ fr.called
  /\ fr.result = Running
  /\ LoopContinues(fr.i)
  \* What await fetch(url, options) comes to: a response, by the class of its
  \* status, or an exception: "network" (fetch failed), "abort" (the
  \* AbortController's timeout fired).
  /\ \E result \in {"2xx", "4xx", "429", "5xx", "network", "abort"},
        late \in BOOLEAN :
       /\ result = "abort" => HasTimeout(fr.client)
       /\ HasTimeout(fr.client) => (late <=> result = "abort")
       /\ LET next == AfterFetch(fr.client, fr.i, result)
          IN fr' = [fr EXCEPT
                      !.responses = Append(@, result),
                      !.late = Append(@, late),
                      !.i = IF next = "retry" THEN @ + 1 ELSE @,
                      !.result =
                        CASE next = "retry" -> Running
                          [] next = "return" ->
                               [kind |-> "returned", status |-> result,
                                error |-> "none"]
                          [] OTHER ->
                               [kind |-> "threw", status |-> "none",
                                error |-> result]]
  /\ UNCHANGED <<pipelineVars, cb, bq, db, gv, cm>>

\* The loop ends without a return: throw new OpenRouterError('Max retries
\* exceeded') (OpenAIError, PerplexityError), the client's typed error.
FetchMaxRetriesExceeded ==
  /\ fr.called
  /\ fr.result = Running
  /\ fr.i = maxRetries
  /\ fr' = [fr EXCEPT !.result = [kind |-> "threw", status |-> "none",
                                  error |-> "typed"]]
  /\ UNCHANGED <<pipelineVars, cb, bq, db, gv, cm>>

NextFetchWithRetry == FetchAttempt \/ FetchMaxRetriesExceeded

SpecFetchWithRetry == InitFetchWithRetry /\ [][NextFetchWithRetry]_vars

\* ------------------------- the pipeline of one query, and the rank functions
\* Largest number of entries of an answer's brands_mentioned list.
MaxBrands == 2

\* The brand names an answer lists and the validator names.
Names == {"A", "B"}

\* A JavaScript value that is null or a number: <<>> for null, <<n>> for n.
Null == <<>>
Num(n) == <<n>>

\* The truthiness of such a value: null and 0 are falsy.
Truthy(v) == v # Null /\ v[1] # 0

\* v || null
OrNull(v) == IF Truthy(v) THEN v ELSE Null

\* The brands_mentioned lists of at most MaxBrands names.
BrandLists == UNION {[1..n -> Names] : n \in 0..MaxBrands}

\* A table that gives full weight to every rank above 0.
getQueryVisibilityFlat(rank) == IF rank = 0 THEN "0%" ELSE "100%"

\* if (rank === 0) return '0%'; if (rank === 1) return '100%'; return '50%';
getQueryVisibility(rank) ==
  IF rank = 0 THEN "0%" ELSE IF rank = 1 THEN "100%" ELSE "50%"

\* visibility = rank === 1 ? '100%' : '50%', for a brand that was found.
RankVisibility(rank) == IF rank = 1 THEN "100%" ELSE "50%"

\* parseInt(visibility): the leading integer of the string, NaN (falsy, here
\* null) when there is none.
ParseInt(visibility) ==
  CASE visibility = "100%" -> Num(100)
    [] visibility = "50%" -> Num(50)
    [] visibility = "0%" -> Num(0)
    [] OTHER -> Null

\* parseInt(result.visibility) || 0: the value of the column visibility.
StoredVisibility(visibility) ==
  IF Truthy(ParseInt(visibility)) THEN ParseInt(visibility)[1] ELSE 0

\* createErrorResult(query, focusBrand)
createErrorResult ==
  [answer |-> "error", brands_mentioned |-> <<>>, focused_brand_rank |-> 0,
   visibility |-> "0%", websites_cited |-> <<>>]

\* What validateBrandWithLLM returns when it did not find the brand: found:
\* false, matched_name: null, position: null.
NotFound == [found |-> FALSE, matched_name |-> "null", position |-> Null]

\* The ways the validation call fails: fetchWithRetry throws, !response.ok,
\* no content, extractAndParseJSON throws.
ValidationFailures == {"transport", "notOk", "empty", "unparsable"}

\* The JSON objects the validator can answer with: the service is free to
\* name any entry and any position, inside the list or not.
ValidatorReplies ==
  [found : BOOLEAN,
   matched_name : Names \cup {"null"},
   position : {Null} \cup {Num(n) : n \in (-1)..(MaxBrands + 1)}]

\* An entry test that never takes the early exit.
NeverNoBrands(list) == FALSE

\* if (!brandsMentioned || brandsMentioned.length === 0) return {found: false}
NoBrands(list) == Len(list) = 0

\* A failed validation answered with what the local matcher finds.
FallBackToHeuristic(heuristic) ==
  [found |-> heuristic > 0, matched_name |-> "null",
   position |-> OrNull(Num(heuristic))]

\* Every failure branch of validateBrandWithLLM returns found: false; the
\* rank detectBrandInAnswer would give is not looked at.
FailClosed(heuristic) == NotFound

\* return {found: validation.found || false, matched_name:
\* validation.matched_name || null, position: validation.position || null}
ValidationOf(reply) ==
  [found |-> reply.found, matched_name |-> reply.matched_name,
   position |-> OrNull(reply.position)]

NoRow ==
  [status |-> "none", answer |-> "none", brands_mentioned |-> <<>>,
   focused_brand_rank |-> 0, visibility |-> 0, websites_cited |-> <<>>,
   error_message |-> "null"]

\* The pipeline of one query: how the answer request ends, and for a parsed
\* answer its brands_mentioned (absent or a list), its websites_cited, and
\* the rank detectBrandInAnswer would give for the list.
BqCalls ==
  {[called |-> TRUE, answerOutcome |-> o, present |-> p, list |-> l,
    sites |-> w, heuristic |-> h, step |-> "answer", requests |-> 0,
    vOutcome |-> "none", validation |-> NotFound, row |-> NoRow] :
     o \in FetchOutcomes, p \in BOOLEAN, l \in BrandLists,
     w \in {<<>>, <<"u">>}, h \in 0..MaxBrands}

InitBq ==
  /\ bq \in BqCalls
  /\ bq.heuristic <= Len(bq.list)
  /\ ~bq.present => bq.list = <<>>
  /\ bq.answerOutcome # "ok" =>
       (~bq.present /\ bq.sites = <<>> /\ bq.heuristic = 0)
  /\ db = NoCall
  /\ gv = NoCall

\* The answer request and its parse: a failure saves createErrorResult with
\* status 'failed' (error_message only in the catch block); a parsed answer
\* goes on to the validation.
BqAnswer ==
  /\ bq.called
  /\ bq.step = "answer"
  /\ IF bq.answerOutcome = "ok"
       THEN bq' = [bq EXCEPT !.step = "validate"]
       ELSE bq' = [bq EXCEPT
                     !.step = "saved",
                     !.row = [status |-> "failed",
                              answer |-> createErrorResult.answer,
                              brands_mentioned |-> createErrorResult.brands_mentioned,
                              focused_brand_rank |-> createErrorResult.focused_brand_rank,
                              visibility |-> StoredVisibility(createErrorResult.visibility),
                              websites_cited |-> createErrorResult.websites_cited,
                              error_message |->
                                PipelineResult(bq.answerOutcome,
                                               [brands |-> 0, sites |-> 0]).err]]
  /\ UNCHANGED <<pipelineVars, cb, fr, db, gv, cm>>

\* validateBrandWithLLM(parsed.brands_mentioned || [], focusBrand): the early
\* exit, or the request to the service.
BqValidateEntry ==
  /\ bq.called
  /\ bq.step = "validate"
  /\ IF NoBrands(bq.list)
       THEN bq' = [bq EXCEPT !.step = "validated", !.validation = NotFound]
       ELSE bq' = [bq EXCEPT !.step = "validating", !.requests = @ + 1]
  /\ UNCHANGED <<pipelineVars, cb, fr, db, gv, cm>>

\* The request of validateBrandWithLLM fails, or the service replies.
BqValidateResponse ==
  /\ bq.called
  /\ bq.step = "validating"
  /\ \/ \E failure \in ValidationFailures :
          bq' = [bq EXCEPT !.step = "validated", !.vOutcome = failure,
                           !.validation = FailClosed(bq.heuristic)]
     \/ \E reply \in ValidatorReplies :
          bq' = [bq EXCEPT !.step = "validated", !.vOutcome = "reply",
                           !.validation = ValidationOf(reply)]
  /\ UNCHANGED <<pipelineVars, cb, fr, db, gv, cm>>

\* if (validation.found && validation.position) { rank = validation.position;
\* visibility = rank === 1 ? '100%' : '50%' }, then the update of the row
\* with status 'completed'.
BqSave ==
  /\ bq.called
  /\ bq.step = "validated"
  /\ LET found == bq.validation.found /\ Truthy(bq.validation.position)
         rank == IF found THEN bq.validation.position[1] ELSE 0
         visibility == IF found THEN RankVisibility(rank) ELSE "0%"
     IN bq' = [bq EXCEPT
                 !.step = "saved",
                 !.row = [status |-> "completed", answer |-> "fetched",
                          brands_mentioned |-> bq.list,
                          focused_brand_rank |-> rank,
                          visibility |-> StoredVisibility(visibility),
                          websites_cited |-> bq.sites,
                          error_message |-> "null"]]
  /\ UNCHANGED <<pipelineVars, cb, fr, db, gv, cm>>

\* The matching layers of detectBrandInAnswer, in the order it tries them.
Layers == <<"1", "2", "2.5", "3", "4", "5">>

SetMin(S) == CHOOSE x \in S : \A y \in S : x <= y

\* A findIndex whose result is used as the rank without the + 1.
detectBrandInAnswerZeroBased(n, matches) ==
  LET hit == {k \in 1..Len(Layers) : matches[k] # {}}
      index == IF n = 0 \/ hit = {} THEN 0 ELSE SetMin(matches[SetMin(hit)]) - 1
  IN [rank |-> index, visibility |-> getQueryVisibility(index),
      evaluated |-> IF n = 0 THEN 0 ELSE IF hit = {} THEN Len(Layers)
                    ELSE SetMin(hit)]

\* detectBrandInAnswer for a list of n brands; matches[k] is the set of
\* positions the test of layer k accepts (findIndex gives the first), for the
\* last layer the position of the best match when its score reaches 0.65.
\* evaluated is the number of layers whose test was run.
detectBrandInAnswer(n, matches) ==
  IF n = 0
    THEN [rank |-> 0, visibility |-> "0%", evaluated |-> 0]
    ELSE LET hit == {k \in 1..Len(Layers) : matches[k] # {}}
         IN IF hit = {}
              THEN [rank |-> 0, visibility |-> "0%", evaluated |-> Len(Layers)]
              ELSE [rank |-> SetMin(matches[SetMin(hit)]),
                    visibility |-> RankVisibility(SetMin(matches[SetMin(hit)])),
                    evaluated |-> SetMin(hit)]

InitDb ==
  /\ \E n \in 0..MaxBrands, matches \in [1..Len(Layers) -> SUBSET (1..MaxBrands)] :
       /\ \A k \in 1..Len(Layers) : matches[k] \subseteq 1..n
       /\ Cardinality(matches[Len(Layers)]) <= 1
       /\ db = [called |-> TRUE, n |-> n, matches |-> matches,
                returned |-> FALSE,
                result |-> [rank |-> 0, visibility |-> "0%", evaluated |-> 0]]
  /\ bq = NoCall
  /\ gv = NoCall

DetectBrandReturns ==
  /\ db.called
  /\ ~db.returned
  /\ db' = [db EXCEPT !.returned = TRUE,
                      !.result = detectBrandInAnswer(db.n, db.matches)]
  /\ UNCHANGED <<pipelineVars, cb, fr, bq, gv, cm>>

InitGv ==
  /\ \E rank \in 0..(MaxBrands + 1) :
       gv = [called |-> TRUE, rank |-> rank, returned |-> FALSE,
             visibility |-> "0%"]
  /\ bq = NoCall
  /\ db = NoCall

GetVisibilityReturns ==
  /\ gv.called
  /\ ~gv.returned
  /\ gv' = [gv EXCEPT !.returned = TRUE,
                      !.visibility = getQueryVisibility(gv.rank)]
  /\ UNCHANGED <<pipelineVars, cb, fr, bq, db, cm>>

InitResolveRank ==
  /\ InitPipeline
  /\ apiKey
  /\ cb = NoCall
  /\ fr = NoCall
  /\ cm = NoCall
  /\ InitBq \/ InitDb \/ InitGv

NextResolveRank ==
  \/ BqAnswer
  \/ BqValidateEntry
  \/ BqValidateResponse
  \/ BqSave
  \/ DetectBrandReturns
  \/ GetVisibilityReturns

SpecResolveRank == InitResolveRank /\ [][NextResolveRank]_vars

\* ---------------------------- the calculations of calculateAllMetrics
\* Largest number of query rows calculateAllMetrics fetches.
MaxRows == 2

\* extractDomain(url): the hostname without its first 'www.', or the string
\* itself when new URL(url) throws; for the URLs an answer cites.
extractDomain(url) ==
  CASE url = "https://www.a.com/x" -> "a.com"
    [] url = "https://a.com/y" -> "a.com"
    [] OTHER -> url

\* The query rows select('*') returns. A completed row carries the list, the
\* rank and the URLs its pipeline saved; a failed row the values of
\* createErrorResult, or the nulls of the insert when it was marked failed
\* with its batch (focused_brand_rank ?? 0 and brands_mentioned?.forEach
\* read both alike); a row left processing the nulls of the insert.
MetricRows ==
  {[status |-> "completed", focused_brand_rank |-> r, brands_mentioned |-> l,
    websites_cited |-> w] :
     l \in BrandLists, r \in 0..MaxBrands,
     w \in {<<>>, <<"https://www.a.com/x">>, <<"https://a.com/y", "not a url">>}}
  \cup
  {[status |-> st, focused_brand_rank |-> 0, brands_mentioned |-> <<>>,
    websites_cited |-> <<>>] : st \in {"failed", "processing"}}

\* The quotient n / d of two numbers, as a fraction.
Frac(n, d) == [num |-> n, den |-> d]

\* Two fractions stand for the same number.
SameNumber(x, y) == x.num * y.den = y.num * x.den

\* queries.filter(q => (q.focused_brand_rank ?? 0) > 0)
Mentioned(queries) == {k \in 1..Len(queries) : queries[k].focused_brand_rank > 0}

RECURSIVE SumOver(_, _)
SumOver(S, f) ==
  IF S = {} THEN 0
  ELSE LET x == CHOOSE y \in S : TRUE IN f[x] + SumOver(S \ {x}, f)

\* if (queries.length === 0) return 0; return (queriesWithMention /
\* queries.length) * 100
calculateOverallVisibility(queries) ==
  IF Len(queries) = 0 THEN Frac(0, 1)
  ELSE Frac(Cardinality(Mentioned(queries)) * 100, Len(queries))

\* if (mentionedQueries.length === 0) return 0; return totalRank /
\* mentionedQueries.length
calculateAverageRank(queries) ==
  IF Mentioned(queries) = {} THEN Frac(0, 1)
  ELSE Frac(SumOver(Mentioned(queries),
                    [k \in Mentioned(queries) |-> queries[k].focused_brand_rank]),
            Cardinality(Mentioned(queries)))

\* The places <<k, index>> at which the lists of the rows name the brand.
Mentions(queries, brand) ==
  {p \in (1..Len(queries)) \X (1..MaxBrands) :
     /\ p[2] <= Len(queries[p[1]].brands_mentioned)
     /\ queries[p[1]].brands_mentioned[p[2]] = brand}

\* The brands of competitorMap in the order of their insertion.
RECURSIVE InOrder(_, _)
InOrder(S, key) ==
  IF S = {} THEN <<>>
  ELSE LET x == CHOOSE y \in S : \A z \in S : key[y] <= key[z]
       IN <<x>> \o InOrder(S \ {x}, key)

\* sort((a, b) => b.mention_count - a.mention_count) of a list: a stable
\* sort, the larger count first.
ByCount(list, count) ==
  LET key == [k \in 1..Len(list) |-> k - count[list[k]] * (Len(list) + 1)]
      at == InOrder(1..Len(list), key)
  IN [k \in 1..Len(list) |-> list[at[k]]]

\* calculateCompetitorStats(queries, focusBrand): one entry per brand a list
\* names, with its count, count / queries.length * 100 and the mean of its
\* positions, the largest count first.
calculateCompetitorStats(queries) ==
  LET brands == {b \in Names : Mentions(queries, b) # {}}
      count == [b \in brands |-> Cardinality(Mentions(queries, b))]
      first == [b \in brands |->
                  LET at == {p[1] * (MaxBrands + 1) + p[2] :
                               p \in Mentions(queries, b)}
                  IN CHOOSE x \in at : \A y \in at : x <= y]
      order == InOrder(brands, first)
      entry(b) ==
        [brand_name |-> b,
         mention_count |-> count[b],
         mention_percentage |-> Frac(count[b] * 100, Len(queries)),
         average_rank |->
           Frac(SumOver(Mentions(queries, b),
                        [p \in Mentions(queries, b) |-> p[2]]), count[b])]
      sorted == ByCount(order, count)
  IN [k \in 1..Len(sorted) |-> entry(sorted[k])]

\* The places at which the rows cite a URL of the domain.
Citations(queries, domain) ==
  {p \in (1..Len(queries)) \X (1..2) :
     /\ p[2] <= Len(queries[p[1]].websites_cited)
     /\ extractDomain(queries[p[1]].websites_cited[p[2]]) = domain}

\* calculateTopSources(queries): one entry per domain with the number of its
\* citations, the largest number first.
calculateTopSources(queries) ==
  LET domains == {extractDomain(u) :
                    u \in {"https://www.a.com/x", "https://a.com/y", "not a url"}}
      cited == {d \in domains : Citations(queries, d) # {}}
      count == [d \in cited |-> Cardinality(Citations(queries, d))]
      first == [d \in cited |->
                  LET at == {p[1] * 3 + p[2] : p \in Citations(queries, d)}
                  IN CHOOSE x \in at : \A y \in at : x <= y]
      sorted == ByCount(InOrder(cited, first), count)
  IN [k \in 1..Len(sorted) |->
        [url |-> sorted[k], domain |-> sorted[k],
         citation_count |-> count[sorted[k]]]]

NoMetrics ==
  [threw |-> FALSE, overall_visibility_score |-> Frac(0, 1),
   average_rank |-> Frac(0, 1), total_queries |-> 0, queries_mentioned |-> 0,
   competitors |-> <<>>, sources |-> <<>>]

\* What calculateAllMetrics derives from the rows it fetched: 'No queries
\* found for analysis' is thrown for no row; else the values of the update
\* of the analysis and the rows of the two upserts.
MetricsOf(queries) ==
  IF Len(queries) = 0
    THEN [NoMetrics EXCEPT !.threw = TRUE]
    ELSE [threw |-> FALSE,
          overall_visibility_score |-> calculateOverallVisibility(queries),
          average_rank |-> calculateAverageRank(queries),
          total_queries |-> Len(queries),
          queries_mentioned |-> Cardinality(Mentioned(queries)),
          competitors |-> calculateCompetitorStats(queries),
          sources |-> calculateTopSources(queries)]

InitMetrics ==
  /\ InitPipeline
  /\ apiKey
  /\ cb = NoCall
  /\ fr = NoCall
  /\ bq = NoCall
  /\ db = NoCall
  /\ gv = NoCall
  /\ \E n \in 0..MaxRows :
       \E queries \in [1..n -> MetricRows] :
          /\ \A k \in 1..n :
               queries[k].focused_brand_rank <= Len(queries[k].brands_mentioned)
          /\ cm = [called |-> TRUE, queries |-> queries, returned |-> FALSE,
                   result |-> NoMetrics]

\* The calculations have been made.
MetricsCalculated ==
  /\ cm.called
  /\ ~cm.returned
  /\ cm' = [cm EXCEPT !.returned = TRUE, !.result = MetricsOf(cm.queries)]
  /\ UNCHANGED <<pipelineVars, cb, fr, bq, db, gv>>

SpecMetrics == InitMetrics /\ [][MetricsCalculated]_vars

\* --------------------------------------- detectBrandInAnswer on brand names
\* Largest number of entries of a list given to detectBrandInAnswer.
MaxMentioned == 2

\* A string is the sequence of its characters.
UpperCaseLetters ==
  <<"A", "B", "C", "D", "E", "F", "G", "H", "I", "J", "K", "L", "M", "N", "O",
    "P", "Q", "R", "S", "T", "U", "V", "W", "X", "Y", "Z">>

LowerCaseLetters ==
  <<"a", "b", "c", "d", "e", "f", "g", "h", "i", "j", "k", "l", "m", "n", "o",
    "p", "q", "r", "s", "t", "u", "v", "w", "x", "y", "z">>

IsUpper(c) == \E k \in 1..Len(UpperCaseLetters) : UpperCaseLetters[k] = c
IsLower(c) == \E k \in 1..Len(LowerCaseLetters) : LowerCaseLetters[k] = c

toUpperChar(c) ==
  IF IsLower(c)
    THEN UpperCaseLetters[CHOOSE k \in 1..Len(LowerCaseLetters) :
                            LowerCaseLetters[k] = c]
    ELSE c

\* s.toLowerCase(), s.toUpperCase()
toLowerCase(s) ==
  [k \in 1..Len(s) |->
     IF IsUpper(s[k])
       THEN LowerCaseLetters[CHOOSE m \in 1..Len(UpperCaseLetters) :
                               UpperCaseLetters[m] = s[k]]
       ELSE s[k]]
toUpperCase(s) == [k \in 1..Len(s) |-> toUpperChar(s[k])]

\* \s and \w of the regular expressions, for the characters of the names.
IsSpace(c) == c = " "
IsWordChar(c) ==
  \/ IsUpper(c)
  \/ IsLower(c)
  \/ c \in {"0", "1", "2", "3", "4", "5", "6", "7", "8", "9"}
  \/ c = "_"

\* The positions of s that hold no white space.
Inked(s) == {k \in 1..Len(s) : ~IsSpace(s[k])}

\* s.trimStart()
trimStart(s) ==
  IF Inked(s) = {} THEN <<>> ELSE SubSeq(s, SetMin(Inked(s)), Len(s))

\* s.trim()
trim(s) ==
  IF Inked(s) = {} THEN <<>>
  ELSE SubSeq(s, SetMin(Inked(s)),
              CHOOSE x \in Inked(s) : \A y \in Inked(s) : x >= y)

\* s.replace(/[^\w\s]/g, '')
RemovePunctuation(s) ==
  LET Kept(c) == IsWordChar(c) \/ IsSpace(c)
  IN SelectSeq(s, Kept)

\* s.includes(t)
includes(s, t) ==
  \E i \in 0..(Len(s) - Len(t)) : SubSeq(s, i + 1, i + Len(t)) = t

\* s.split(/\s+/): the pieces between the runs of white space; a string
\* that begins or ends with white space has an empty first or last piece.
RECURSIVE SplitFrom(_, _)
SplitFrom(s, piece) ==
  IF s = <<>> THEN <<piece>>
  ELSE IF IsSpace(Head(s)) THEN <<piece>> \o SplitFrom(trimStart(s), <<>>)
  ELSE SplitFrom(Tail(s), Append(piece, Head(s)))

split(s) == SplitFrom(s, <<>>)

\* brand.match(/\(([^)]+)\)/): the leftmost '(' that is followed by one or
\* more characters other than ')' and then ')'; group is what stands between.
parenMatch(s) ==
  LET closes(i) == {j \in (i + 1)..Len(s) : s[j] = ")"}
      opens == {i \in 1..Len(s) :
                  /\ s[i] = "("
                  /\ closes(i) # {}
                  /\ (CHOOSE j \in closes(i) : \A m \in closes(i) : j <= m) > i + 1}
  IN IF opens = {}
       THEN [matched |-> FALSE, group |-> <<>>]
       ELSE LET i == CHOOSE x \in opens : \A y \in opens : x <= y
                j == CHOOSE x \in closes(i) : \A y \in closes(i) : x <= y
            IN [matched |-> TRUE, group |-> SubSeq(s, i + 1, j - 1)]

\* const cityNames = [...]: the same list in detectBrandInAnswer and in
\* getAcronym.
cityNames ==
  <<
    <<"d", "e", "l", "h", "i">>,
    <<"m", "u", "m", "b", "a", "i">>,
    <<"b", "a", "n", "g", "a", "l", "o", "r", "e">>,
    <<"c", "h", "e", "n", "n", "a", "i">>,
    <<"k", "o", "l", "k", "a", "t", "a">>,
    <<"h", "y", "d", "e", "r", "a", "b", "a", "d">>,
    <<"p", "u", "n", "e">>,
    <<"a", "h", "m", "e", "d", "a", "b", "a", "d">>,
    <<"j", "a", "i", "p", "u", "r">>,
    <<"l", "u", "c", "k", "n", "o", "w">>,
    <<"b", "h", "u", "b", "a", "n", "e", "s", "w", "a", "r">>,
    <<"b", "h", "u", "b", "a", "n", "e", "s", "h", "w", "a", "r">>,
    <<"n", "o", "i", "d", "a">>,
    <<"g", "u", "r", "g", "a", "o", "n">>,
    <<"g", "u", "r", "u", "g", "r", "a", "m">>,
    <<"c", "h", "a", "n", "d", "i", "g", "a", "r", "h">>,
    <<"i", "n", "d", "o", "r", "e">>,
    <<"n", "a", "g", "p", "u", "r">>,
    <<"p", "a", "t", "n", "a">>,
    <<"b", "e", "n", "g", "a", "l", "u", "r", "u">>,
    <<"c", "a", "l", "c", "u", "t", "t", "a">>,
    <<"b", "o", "m", "b", "a", "y">>,
    <<"m", "a", "d", "r", "a", "s">>>>

\* s.replace(new RegExp(`\\b${city}\\b`, 'gi'), ''): the expression matches
\* at position i of s the city in any case, with no word character before it
\* and none after it; every match is taken out (two matches cannot overlap,
\* each being a whole word) and the other characters keep their order.
RemoveWord(s, city) ==
  LET MatchesWordAt(i) ==
        /\ i + Len(city) - 1 <= Len(s)
        /\ toLowerCase(SubSeq(s, i, i + Len(city) - 1)) = city
        /\ i > 1 => ~IsWordChar(s[i - 1])
        /\ i + Len(city) <= Len(s) => ~IsWordChar(s[i + Len(city)])
      starts == {i \in 1..Len(s) : MatchesWordAt(i)}
      removed == {k \in 1..Len(s) :
                    \E i \in starts : i <= k /\ k < i + Len(city)}
      kept == (1..Len(s)) \ removed
  IN IF starts = {} THEN s
     ELSE [j \in 1..Cardinality(kept) |->
             s[CHOOSE k \in kept : Cardinality({m \in kept : m <= k}) = j]]

\* for (const city of cityNames) s = s.replace(...).trim(), from city k on;
\* a string that has become empty stays empty.
RECURSIVE WithoutCityFrom(_, _)
WithoutCityFrom(s, k) ==
  IF k > Len(cityNames) \/ Len(s) = 0 THEN s
  ELSE WithoutCityFrom(trim(RemoveWord(s, cityNames[k])), k + 1)

\* getAcronym(name): the first characters of the words the filter keeps, a
\* word that is not empty, is not a city name and whose first character is
\* its own upper case.
getAcronym(name) ==
  LET InAcronym(word) ==
        /\ Len(word) # 0
        /\ \A k \in 1..Len(cityNames) : cityNames[k] # toLowerCase(word)
        /\ word[1] = toUpperChar(word[1])
      words == SelectSeq(split(name), InAcronym)
      acronym == [k \in 1..Len(words) |-> words[k][1]]
  IN IF Len(acronym) >= 2 THEN acronym ELSE <<>>

\* compareTwoStrings of string-similarity, which findBestMatch(a,
\* [b]).bestMatch.rating returns: the white space removed, 1 for equal
\* strings, 0 when one has fewer than two characters, else twice the number
\* of shared bigrams over the number of bigrams of both.
compareTwoStrings(first, second) ==
  LET NotSpace(c) == ~IsSpace(c)
      Bigrams(s) == [k \in 1..(Len(s) - 1) |-> <<s[k], s[k + 1]>>]
      Occurrences(grams, g) ==
        Cardinality({k \in 1..Len(grams) : grams[k] = g})
      a == SelectSeq(first, NotSpace)
      b == SelectSeq(second, NotSpace)
      shared == {Bigrams(a)[k] : k \in 1..(Len(a) - 1)}
      intersectionSize ==
        SumOver(shared, [g \in shared |->
                           Min(Occurrences(Bigrams(a), g),
                               Occurrences(Bigrams(b), g))])
  IN IF a = b THEN Frac(1, 1)
     ELSE IF Len(a) < 2 \/ Len(b) < 2 THEN Frac(0, 1)
     ELSE Frac(2 * intersectionSize, Len(a) + Len(b) - 2)

\* score >= percent / 100, and x > y, for fractions of positive denominator.
AtLeast(score, percent) == score.num * 100 >= percent * score.den
Greater(x, y) == x.num * y.den > y.num * x.den

\* Layer 1: exact match of the cleaned names.
Layer1(brand, focusBrand) ==
  RemovePunctuation(trim(toLowerCase(brand)))
    = RemovePunctuation(trim(toLowerCase(focusBrand)))

\* Layer 2: one name contains the other, with or without punctuation, or
\* the focus brand stands in parentheses in the brand.
Layer2(brand, focusBrand) ==
  LET focusLower == trim(toLowerCase(focusBrand))
      focusClean == RemovePunctuation(focusLower)
      brandLower == trim(toLowerCase(brand))
      brandClean == RemovePunctuation(brandLower)
  IN \/ includes(brandLower, focusLower)
     \/ includes(focusLower, brandLower)
     \/ includes(brandClean, focusClean)
     \/ includes(focusClean, brandClean)
     \/ /\ parenMatch(brand).matched
        /\ trim(toLowerCase(parenMatch(brand).group)) = focusLower

\* Layer 2.5: the acronym of one name without its cities is the other name
\* without its cities, or the two names are similar by 0.85.
Layer25(brand, focusBrand) ==
  LET focusLowerTrimmed == trim(trim(toLowerCase(focusBrand)))
      brandLower == trim(toLowerCase(brand))
      focusWithoutCity == WithoutCityFrom(focusLowerTrimmed, 1)
      brandWithoutCity == WithoutCityFrom(brandLower, 1)
  IN \/ /\ Len(focusWithoutCity) <= 6
        /\ toUpperCase(focusWithoutCity) = getAcronym(brandWithoutCity)
     \/ /\ Len(brandWithoutCity) <= 6
        /\ toUpperCase(brandWithoutCity) = getAcronym(focusWithoutCity)
     \/ AtLeast(compareTwoStrings(focusLowerTrimmed, brandLower), 85)

\* Layer 3: equal acronyms, one name the acronym of the other, or 70% of
\* the significant words of one name contained in the other. Significant is
\* words.filter(w => w.length > 2) and Ceil70(n) is Math.ceil(n * 0.7).
Layer3(brand, focusBrand) ==
  LET Significant(word) == Len(word) > 2
      Ceil70(n) == (7 * n + 9) \div 10
      focusAcronym == getAcronym(focusBrand)
      focusWords == split(toLowerCase(focusBrand))
      focusLower == trim(toLowerCase(focusBrand))
      brandAcronym == getAcronym(brand)
      brandLower == toLowerCase(brand)
      brandWords == split(toLowerCase(brand))
      significantFocusWords == SelectSeq(focusWords, Significant)
      significantBrandWords == SelectSeq(brandWords, Significant)
      matchCount ==
        Cardinality({k \in 1..Len(significantFocusWords) :
                       includes(brandLower, significantFocusWords[k])})
      reverseMatchCount ==
        Cardinality({k \in 1..Len(significantBrandWords) :
                       includes(focusLower, significantBrandWords[k])})
  IN \/ focusAcronym # <<>> /\ brandAcronym # <<>> /\ focusAcronym = brandAcronym
     \/ Len(focusBrand) <= 6 /\ brandAcronym = toUpperCase(focusBrand)
     \/ Len(brand) <= 6 /\ focusAcronym = toUpperCase(brand)
     \/ /\ Len(focusWords) >= 2
        /\ \/ /\ Len(significantFocusWords) > 0
              /\ matchCount >= Ceil70(Len(significantFocusWords))
           \/ /\ Len(significantBrandWords) > 0
              /\ reverseMatchCount >= Ceil70(Len(significantBrandWords))

\* Layer 4: a word of more than two characters is in both names, and the
\* first word of one name contains the first word of the other.
Layer4(brand, focusBrand) ==
  LET brandParts == split(brand)
      focusParts == split(focusBrand)
      focusFirstWord == toLowerCase(focusParts[1])
      brandFirstWord == toLowerCase(brandParts[1])
  IN /\ \E f \in 1..Len(focusParts), p \in 1..Len(brandParts) :
          /\ toLowerCase(focusParts[f]) = toLowerCase(brandParts[p])
          /\ Len(focusParts[f]) > 2
     /\ \/ focusFirstWord = brandFirstWord
        \/ includes(focusFirstWord, brandFirstWord)
        \/ includes(brandFirstWord, focusFirstWord)

\* Layer 5: the entry the reduce keeps, the first of the largest score above
\* 0, when that score is 0.65 or more; findIndex then gives the first entry
\* equal to it.
Layer5(brandsMentioned, focusBrand) ==
  LET focusLower == trim(toLowerCase(focusBrand))
      score == [k \in 1..Len(brandsMentioned) |->
                  compareTwoStrings(focusLower, toLowerCase(brandsMentioned[k]))]
      best == {k \in 1..Len(brandsMentioned) :
                 /\ Greater(score[k], Frac(0, 1))
                 /\ \A m \in 1..Len(brandsMentioned) : ~Greater(score[m], score[k])}
  IN IF best = {} THEN {}
     ELSE LET k == SetMin(best)
          IN IF AtLeast(score[k], 65)
               THEN {SetMin({m \in 1..Len(brandsMentioned) :
                               brandsMentioned[m] = brandsMentioned[k]})}
               ELSE {}

\* The positions each layer accepts, in the order of Layers.
LayerMatches(brandsMentioned, focusBrand) ==
  LET at(Test(_, _)) ==
        {k \in 1..Len(brandsMentioned) : Test(brandsMentioned[k], focusBrand)}
  IN <<at(Layer1), at(Layer2), at(Layer25), at(Layer3), at(Layer4),
       Layer5(brandsMentioned, focusBrand)>>

\* The names of the calls.
XavierBhubaneswar ==
  <<"X", "a", "v", "i", "e", "r", " ", "I", "n", "s", "t", "i", "t", "u",
    "t", "e", " ", "o", "f", " ", "M", "a", "n", "a", "g", "e", "m", "e",
    "n", "t", " ", "B", "h", "u", "b", "a", "n", "e", "s", "w", "a", "r">>

XimBhubaneshwar ==
  <<"X", "I", "M", " ", "B", "h", "u", "b", "a", "n", "e", "s", "h", "w",
    "a", "r">>

IitDelhi ==
  <<"I", "I", "T", " ", "D", "e", "l", "h", "i">>

\* The entries of the lists and the focus brands of the calls.
MentionedNames ==
  {XavierBhubaneswar,
   \* "XIM Bhubaneswar"
   <<"X", "I", "M", " ", "B", "h", "u", "b", "a", "n", "e", "s", "w", "a",
     "r">>,
   IitDelhi,
   \* "IIT Delhy"
   <<"I", "I", "T", " ", "D", "e", "l", "h", "y">>,
   \* "Lovely Professional University"
   <<"L", "o", "v", "e", "l", "y", " ", "P", "r", "o", "f", "e", "s", "s",
     "i", "o", "n", "a", "l", " ", "U", "n", "i", "v", "e", "r", "s", "i",
     "t", "y">>,
   \* "Lovely University (LPU)"
   <<"L", "o", "v", "e", "l", "y", " ", "U", "n", "i", "v", "e", "r", "s",
     "i", "t", "y", " ", "(", "L", "P", "U", ")">>,
   \* "Stanford"
   <<"S", "t", "a", "n", "f", "o", "r", "d">>}

FocusBrands ==
  {XimBhubaneshwar,
   IitDelhi,
   \* "IIT Bombay"
   <<"I", "I", "T", " ", "B", "o", "m", "b", "a", "y">>,
   \* "LPU"
   <<"L", "P", "U">>}

\* detectBrandInAnswer is called with a list of names and a focus brand.
InitDetectBrand ==
  /\ InitPipeline
  /\ apiKey
  /\ cb = NoCall
  /\ fr = NoCall
  /\ bq = NoCall
  /\ gv = NoCall
  /\ cm = NoCall
  /\ \E n \in 0..MaxMentioned :
       \E brandsMentioned \in [1..n -> MentionedNames], focusBrand \in FocusBrands :
          db = [called |-> TRUE, brandsMentioned |-> brandsMentioned,
                focusBrand |-> focusBrand, returned |-> FALSE,
                result |-> [rank |-> 0, visibility |-> "0%", evaluated |-> 0]]

\* The call returns.
DetectBrandOfNamesReturns ==
  /\ db.called
  /\ ~db.returned
  /\ db' = [db EXCEPT
              !.returned = TRUE,
              !.result = detectBrandInAnswer(
                           Len(db.brandsMentioned),
                           LayerMatches(db.brandsMentioned, db.focusBrand))]
  /\ UNCHANGED <<pipelineVars, cb, fr, bq, gv, cm>>

SpecDetectBrand == InitDetectBrand /\ [][DetectBrandOfNamesReturns]_vars

\* ===================================================================== claims
Rows == 1..nQueries

\* processBatchesConcurrently has returned in invocation i.
BatchExecutionFinished(i) ==
  pc[i] \in {"metricsFetch", "metricsUpdate", "competitors", "sources",
             "topicsFetch", "topicsUpdate", "returned"}

\* The step is one of invocation i of processAnalysis.
StepOf(i) ==
  \/ pc'[i] # pc[i]
  \/ bst'[i] # bst[i]
  \/ tpc'[i] # tpc[i]
  \/ attempt'[i] # attempt[i]

NumCompleted == Cardinality({q \in Rows : qStatus[q] = "completed"})
NumProcessed == Cardinality({q \in Rows : qStatus[q] \in Terminal})

\* C1 (as claimed): for an analysis that was pending with at least one query,
\* once batch execution has finished every query row is completed or failed;
\* none is left pending or processing.
C1_AllQueriesTerminal ==
  (startStatus["a"] = "pending" /\ nQueries >= 1 /\ BatchExecutionFinished("a"))
    => \A q \in Rows : qStatus[q] \in Terminal

\* C2 (as claimed): completed and failed are terminal for the analysis row: no
\* step changes a status that is completed or failed.
C2_AnalysisStatusTerminal ==
  [][(aStatus \in Terminal) => (aStatus' = aStatus)]_vars

\* C3 (as claimed): the analysis is completed only when every query is
\* terminal and the whole aggregation (overall metrics, competitors, sources,
\* topics) has succeeded; never while aggregation is running or has failed.
C3_CompletedAfterAggregation ==
  aStatus = "completed" =>
    /\ \A q \in Rows : qStatus[q] \in Terminal
    /\ pc["a"] = "returned"
    /\ "topics" \in agg

\* C4 (as claimed): a query row's status moves only pending -> processing ->
\* completed or failed, and a row that is completed or failed is never
\* written again.
C4_QueryStatusMoves ==
  [][\A q \in QIds :
       /\ qStatus[q] = "pending" => qStatus'[q] \in {"pending", "processing"}
       /\ qStatus[q] = "processing" =>
            qStatus'[q] \in {"processing", "completed", "failed"}
       /\ qStatus[q] \in Terminal =>
            /\ qStatus'[q] = qStatus[q]
            /\ qErrMsg'[q] = qErrMsg[q]
            /\ qBrands'[q] = qBrands[q]
            /\ qSites'[q] = qSites[q]
            /\ qWrites'[q] = qWrites[q]]_vars

\* C5 (as claimed): a call of processAnalysis for an analysis that is
\* processing, completed or failed changes neither the analysis row nor a
\* query row and issues no external request.
C5_GuardedCallChangesNothing ==
  [][(startStatus["b"] \in {"processing", "completed", "failed"} /\ StepOf("b"))
       => /\ UNCHANGED <<analysisRow, queryRows>>
          /\ \A q \in QIds : tpc'["b"][q] # "fetching"]_vars

ProgressWritten ==
  /\ pc["a"] = "progressWrite"
  /\ pc'["a"] # "progressWrite"
  /\ storeErrs' = storeErrs

\* C7 (as claimed): the progress written after a round is the number of
\* queries completed or failed, over the number of queries, times 100, rounded.
C7_ProgressCountsProcessed ==
  [][ProgressWritten => (aProgress' = RoundPercent(NumProcessed, nQueries))]_vars

\* C7 (amended): the progress written after a round is the number of queries
\* completed, over the number of queries, times 100, rounded.
C7_ProgressCountsCompleted ==
  [][ProgressWritten => (aProgress' = RoundPercent(NumCompleted, nQueries))]_vars

\* C7 witness: after the last round the progress written is 50 with one query
\* completed and one failed.
C7_Witness ==
  /\ pc["a"] = "metricsFetch"
  /\ nQueries = 2
  /\ NumCompleted = 1
  /\ NumProcessed = 2
  /\ aProgress = 50

\* C8 (as claimed): the progress of an analysis never decreases.
C8_ProgressNeverDecreases ==
  [][(aProgress' >= aProgress)]_vars

C10_PartialProgressKept ==
  (aStatus = "completed" /\ \E q \in Rows : qStatus[q] = "failed")
    => aProgress = RoundPercent(NumCompleted, nQueries)

\* The batches of invocation i whose processSingleBatch has started and has
\* not settled, and the queries whose pipeline has started and not returned.
InFlightBatches(i) ==
  {b \in 1..Len(batches[i]) :
     bst[i][b] \in {"marking", "running", "sleeping", "failing"}}

InFlightPipelines(i) == {q \in QIds : tpc[i][q] \in {"fetching", "saving"}}

\* C11: during a run of processAnalysis at most CONCURRENT_BATCHES batches
\* are in flight at once, hence at most CONCURRENT_BATCHES * QUERIES_PER_BATCH
\* query pipelines.
C11_RoundConcurrencyBound ==
  /\ Cardinality(InFlightBatches("a")) <= CONCURRENT_BATCHES
  /\ Cardinality(InFlightPipelines("a")) <= CONCURRENT_BATCHES * QUERIES_PER_BATCH

\* C11 witness: as many batches in flight as the limit allows, their
\* pipelines running, while a further batch waits for the next round.
C11_Witness ==
  /\ Cardinality(InFlightBatches("a")) = CONCURRENT_BATCHES
  /\ InFlightPipelines("a") # {}
  /\ \E b \in 1..Len(batches["a"]) : bst["a"][b] = "idle"

\* C13 (as claimed): every failed query row has an error_message and empty
\* brands_mentioned and websites_cited lists, whichever path marked it failed.
C13_FailedRowShape ==
  \A q \in Rows :
    qStatus[q] = "failed" =>
      /\ qErrMsg[q] # "null"
      /\ qBrands[q] = 0
      /\ qSites[q] = 0

RECURSIVE Concat(_)
Concat(bs) == IF bs = <<>> THEN <<>> ELSE Head(bs).queries \o Concat(Tail(bs))

\* C12: for a list of N queries createBatches returns ceil(N / batchSize)
\* batches numbered 1, 2, ... in order; every batch but the last has batchSize
\* queries, the last has 1 to batchSize; the batches' contents concatenated
\* are the list in its order.
C12_BatchPartition ==
  (cb.called /\ cb.returned) =>
    LET bs == cb.batches
        N == Len(cb.queries)
        Ceil(n, d) == (n + d - 1) \div d
    IN /\ Len(bs) = Ceil(N, cb.batchSize)
       /\ \A k \in 1..Len(bs) : bs[k].batchId = k
       /\ \A k \in 1..(Len(bs) - 1) : Len(bs[k].queries) = cb.batchSize
       /\ Len(bs) > 0 =>
            /\ Len(bs[Len(bs)].queries) >= 1
            /\ Len(bs[Len(bs)].queries) <= cb.batchSize
       /\ Concat(bs) = cb.queries

\* C12 witness: 11 queries in batches of 5 give three batches, the last of
\* one query.
C12_Witness ==
  /\ cb.called
  /\ cb.returned
  /\ Len(cb.queries) = 11
  /\ cb.batchSize = 5
  /\ Len(cb.batches) = 3
  /\ Len(cb.batches[3].queries) = 1

\* C19 (as claimed): in every client's fetchWithRetry a 5xx response on
\* attempt 1 or 2 is followed by another attempt, not returned to the caller.
C19_RetriesOn5xx ==
  [][(/\ fr.called
      /\ fr.result = Running
      /\ fr.i < maxRetries - 1
      /\ Len(fr'.responses) = Len(fr.responses) + 1
      /\ fr'.responses[Len(fr'.responses)] = "5xx")
       => (fr'.result = Running /\ fr'.i = fr.i + 1)]_vars

\* C20 (as claimed): when fetchWithRetry gives up, the error that reaches its
\* caller is the client's typed error, never the low-level exception.
C20_GivesUpWithTypedError ==
  (fr.called /\ fr.result.kind = "threw") => fr.result.error = "typed"

\* The pipeline of the query has written its row.
BqSaved == bq.called /\ bq.step = "saved"

\* C14 (as claimed): the rank of every row processBatchQueries writes is
\* between 0 and the length of brands_mentioned, and a rank above 0 is the
\* position in brands_mentioned of the name the validator matched.
C14_RankWithinBrandList ==
  BqSaved =>
    /\ bq.row.focused_brand_rank >= 0
    /\ bq.row.focused_brand_rank <= Len(bq.row.brands_mentioned)
    /\ bq.row.focused_brand_rank > 0 =>
         bq.row.brands_mentioned[bq.row.focused_brand_rank]
           = bq.validation.matched_name

\* The weight of a rank: 0 for rank 0, 100 for rank 1, 50 for the others.
WeightTable(rank) == IF rank = 0 THEN 0 ELSE IF rank = 1 THEN 100 ELSE 50

C16_EmptyListShortCircuit ==
  /\ (bq.called /\ Len(bq.list) = 0) =>
       /\ bq.requests = 0
       /\ bq.step # "validating"
       /\ BqSaved =>
            (bq.row.focused_brand_rank = 0 /\ bq.row.visibility = 0)
  /\ (db.called /\ db.returned /\ db.n = 0) =>
       (db.result.rank = 0 /\ db.result.evaluated = 0)

\* C16 witness: a parsed answer without brands_mentioned was saved as
\* completed with no validation request sent.
C16_Witness ==
  /\ BqSaved
  /\ bq.answerOutcome = "ok"
  /\ ~bq.present
  /\ bq.row.status = "completed"
  /\ bq.requests = 0

\* C17: when the validation call fails, the row is written completed with the
\* fetched answer, its brand list and cited URLs, rank 0 and weight 0,
\* whatever the local matcher would have found.
C17_ValidationFailsClosed ==
  (BqSaved /\ bq.vOutcome \in ValidationFailures) =>
    /\ bq.row.status = "completed"
    /\ bq.row.answer = "fetched"
    /\ bq.row.brands_mentioned = bq.list
    /\ bq.row.websites_cited = bq.sites
    /\ bq.row.focused_brand_rank = 0
    /\ bq.row.visibility = 0

\* C17 witness: the validation request failed in transport for a list in
\* which the local matcher finds the brand; the row is completed with rank 0.
C17_Witness ==
  /\ BqSaved
  /\ bq.vOutcome = "transport"
  /\ bq.heuristic >= 1
  /\ bq.sites # <<>>
  /\ bq.row.status = "completed"
  /\ bq.row.focused_brand_rank = 0

\* C21 (as claimed): with the API credential missing processBatchQueries
\* fails at once, and processSingleBatch invokes it once only for a batch.
C21_ConfigErrorNotRetried ==
  ~apiKey =>
    /\ \A q \in QIds : tpc["a"][q] \notin {"fetching", "saving"}
    /\ \A b \in BIds : attempt["a"][b] <= 1

\* C22 (as claimed): what calculateAllMetrics computes is what the completed
\* rows alone give: failed rows enter no numerator and no denominator, and
\* rows of which one at least exists never make the calculation throw.
C22_MetricsOverCompletedOnly ==
  (cm.called /\ cm.returned /\ Len(cm.queries) > 0) =>
    LET IsCompleted(row) == row.status = "completed"
        done == SelectSeq(cm.queries, IsCompleted)
        stats == calculateCompetitorStats(done)
    IN /\ ~cm.result.threw
       /\ SameNumber(cm.result.overall_visibility_score,
                     calculateOverallVisibility(done))
       /\ SameNumber(cm.result.average_rank, calculateAverageRank(done))
       /\ Len(cm.result.competitors) = Len(stats)
       /\ \A k \in 1..Len(stats) :
            /\ cm.result.competitors[k].brand_name = stats[k].brand_name
            /\ cm.result.competitors[k].mention_count = stats[k].mention_count
            /\ SameNumber(cm.result.competitors[k].mention_percentage,
                          stats[k].mention_percentage)
       /\ cm.result.sources = calculateTopSources(done)

\* C23 (as claimed): no error of a query's pipeline makes processBatchQueries
\* reject, and a query whose pipeline ended in an error has its row written
\* failed with the error's message once the pipeline has returned.
C23_QueryErrorIsRecorded ==
  \A q \in QIds :
    /\ tpc["a"][q] # "rejected"
    /\ (tpc["a"][q] = "done" /\ tres["a"][q].status = "failed") =>
         (qStatus[q] = "failed" /\ qErrMsg[q] # "null")

\* C24 (as claimed): detectBrandInAnswer(["Xavier Institute of Management
\* Bhubaneswar"], "XIM Bhubaneshwar") returns rank 1.
C24_XimBhubaneshwarHasRank1 ==
  (/\ db.called
   /\ db.returned
   /\ db.brandsMentioned = <<XavierBhubaneswar>>
   /\ db.focusBrand = XimBhubaneshwar)
    => db.result.rank = 1

\* C25 (as claimed): when an entry matches the focus brand exactly the rank
\* is the position of the first such entry, whatever the earlier entries
\* match by; and the rank is 0 exactly when none of the five specified
\* strategies matches an entry. The five are the layers of
\* detectBrandInAnswer other than its Layer 4: exact, substring, city-stripped
\* acronym or spelling variant, acronym or word overlap, similarity.
C25_EarlierStrategyWins ==
  (db.called /\ db.returned) =>
    LET matches == LayerMatches(db.brandsMentioned, db.focusBrand)
        SpecifiedStrategies == {k \in 1..Len(Layers) : Layers[k] # "4"}
    IN /\ matches[1] # {} => db.result.rank = SetMin(matches[1])
       /\ db.result.rank = 0 <=>
            \A k \in SpecifiedStrategies : matches[k] = {}

\* C26 (as claimed): of two overlapping calls of processAnalysis for one
\* pending analysis at most one passes the status guard, and no query row
\* has tasks of both calls writing it.
C26_OneInvocationPassesGuard ==
  LET \* Invocation i has passed the status guard and goes on to the queries.
      PassedGuard(i) ==
        pc[i] \in {"markProcessing", "fetchQueries", "roundStart", "roundWait",
                   "progressRead", "progressWrite"}
      \* The tasks of invocation i have a write of the row of query q under
      \* way or still to issue.
      WritesRow(i, q) ==
        tpc[i][q] \in {"mark", "fetching", "saving", "markFailed"}
  IN /\ ~(PassedGuard("a") /\ PassedGuard("b"))
     /\ \A q \in QIds : ~(WritesRow("a", q) /\ WritesRow("b", q))

\* The round of batch number b: rounds are counted from 0.
RoundOf(b) == (b - 1) \div CONCURRENT_BATCHES

Settled == {"resolved", "rejected"}

\* C27: a batch is started, and a query of it marked or dispatched, only
\* when every batch of the earlier rounds has settled; the wait of a round
\* ends only with all its batches settled and leads to the recomputation of
\* the progress, and only from there (or from the creation of the batches)
\* is a round started.
C27_RoundsDoNotOverlap ==
  [][/\ \A b \in 1..Len(batches'["a"]) :
          bst'["a"][b] # "idle" =>
             \A e \in 1..Len(batches'["a"]) :
                RoundOf(e) < RoundOf(b) => bst'["a"][e] \in Settled
     /\ \A b \in 1..Len(batches'["a"]) :
          \A q \in Range(batches'["a"][b].queries) :
             tpc'["a"][q] # "idle" => bst'["a"][b] # "idle"
     /\ (pc["a"] = "roundWait" /\ pc'["a"] # "roundWait") =>
          /\ pc'["a"] = "progressRead"
          /\ \A b \in RoundBatches("a") : bst["a"][b] \in Settled
     /\ (pc'["a"] = "roundStart" /\ pc["a"] # "roundStart") =>
          pc["a"] \in {"fetchQueries", "progressRead", "progressWrite"}]_vars

\* C27 witness: the batch of the second round is running, the batch of the
\* first round has rejected and the progress was recomputed in between.
C27_Witness ==
  /\ Len(batches["a"]) >= 2
  /\ RoundOf(Len(batches["a"])) >= 1
  /\ bst["a"][1] \in Settled
  /\ bst["a"][Len(batches["a"])] = "running"
  /\ \E q \in BatchQueries("a", Len(batches["a"])) : tpc["a"][q] = "fetching"

\* C28 (as claimed): when the answer request of a query is issued, the row
\* of the query has been written with status processing.
C28_ProcessingBeforeRequest ==
  [][\A q \in QIds :
       (tpc'["a"][q] = "fetching" /\ tpc["a"][q] # "fetching") =>
          qStatus[q] = "processing"]_vars

\* An invocation of processBatchQueries for batch b: a step of BeginAttempt.
Invokes(b) == attempt'["a"][b] = attempt["a"][b] + 1

\* C29: processSingleBatch invokes processBatchQueries at most MAX_RETRIES
\* = 3 times for a batch: a first time when the marking has returned, again
\* only after the invocation before has raised, and never after one that
\* returned normally.
C29_AtMostThreeAttempts ==
  [][\A b \in BIds :
       /\ attempt'["a"][b] <= 3
       /\ attempt'["a"][b] # attempt["a"][b] => Invokes(b)
       /\ Invokes(b) =>
            IF attempt["a"][b] = 0
              THEN bst["a"][b] = "marking"
              ELSE bst["a"][b] = "sleeping"
       /\ bst'["a"][b] = "sleeping" => attempt'["a"][b] < 3
       /\ (bst'["a"][b] = "sleeping" /\ bst["a"][b] # "sleeping") =>
            \/ Invokes(b) /\ RejectsAtEntry(apiKey, Len(batches["a"][b].queries))
            \/ /\ bst["a"][b] = "running"
               /\ \E q \in BatchQueries("a", b) : tpc["a"][q] = "rejected"
       /\ bst["a"][b] = "resolved" =>
            (bst'["a"][b] = "resolved" /\ ~Invokes(b))]_vars

\* C29 witness: the third invocation for a batch has raised and the batch
\* is marking its queries failed; it is not invoked a fourth time.
C29_Witness ==
  \E b \in 1..Len(batches["a"]) :
    /\ attempt["a"][b] = 3
    /\ bst["a"][b] = "failing"

\* C30 (as claimed): when processSingleBatch has rethrown after its three
\* attempts, every query of the batch is recorded failed with the message of
\* the last error; none is still processing.
C30_FailedBeforeRethrow ==
  \A b \in 1..Len(batches["a"]) :
    bst["a"][b] = "rejected" =>
      \A q \in BatchQueries("a", b) :
        /\ qStatus[q] = "failed"
        /\ qErrMsg[q] = "batch"

\* C31: one call of fetchWithRetry issues at most 3 HTTP requests, whatever
\* its attempts end in (a 429 response, a 5xx response, a network error or a
\* timeout count alike), and the loop variable never passes maxRetries.
C31_AtMostThreeRequests ==
  fr.called =>
    /\ Len(fr.responses) <= 3
    /\ fr.i <= maxRetries

\* A call has issued three requests, each ended in a 429 or 5xx response, a
\* network error or a timeout, and has given up.
C31_Witness ==
  /\ fr.called
  /\ Len(fr.responses) = 3
  /\ \A k \in 1..3 : fr.responses[k] \in {"429", "5xx", "network", "abort"}
  /\ fr.result.kind = "threw"

\* C32 (as claimed): in each client's fetchWithRetry no request stays
\* unanswered beyond the overall timeout without being aborted, and an
\* aborted request is followed by another attempt unless it was the last
\* attempt, after which the error is thrown.
C32_TimeoutBoundsEveryRequest ==
  fr.called =>
    \A k \in 1..Len(fr.responses) :
      fr.late[k] =>
        /\ fr.responses[k] = "abort"
        /\ k < maxRetries => (Len(fr.responses) > k \/ fr.result = Running)
        /\ k = maxRetries => fr.result.kind = "threw"

\* C33 (as claimed): a query whose answer response is malformed (no
\* data.choices[0].message.content, or a content extractAndParseJSON throws
\* on, one of the ways the outcome threw comes about) has its row saved
\* failed with an error message, and no further request is issued for it.
C33_MalformedAnswerIsFailedWithMessage ==
  (bq.called /\ bq.step = "saved" /\ bq.answerOutcome \in {"invalid", "threw"}) =>
    /\ bq.row.status = "failed"
    /\ bq.row.error_message # "null"
    /\ bq.requests = 0

\* C34: in one run of processAnalysis the answer request of a query is issued
\* once: an invocation of processBatchQueries starts the pipeline of a query
\* that has not been started before, a query whose pipeline has started is
\* never marked or started again by a retry of its batch, and every query
\* of a batch that has resolved has gone through its pipeline.
C34_AnswerRequestedOnce ==
  [][/\ \A q \in QIds :
          /\ (tpc'["a"][q] = "fetching" /\ tpc["a"][q] # "fetching") =>
               tpc["a"][q] = "marked"
          /\ tpc["a"][q] \in {"fetching", "saving", "done"} =>
               tpc'["a"][q] \in {"fetching", "saving", "done"}
     /\ \A b \in 1..Len(batches'["a"]) :
          bst'["a"][b] = "resolved" =>
            \A k \in 1..Len(batches'["a"][b].queries) :
              tpc'["a"][batches'["a"][b].queries[k]] = "done"]_vars

\* A batch of two queries has resolved, each query with a result.
C34_Witness ==
  \E b \in BIds :
    /\ b \in 1..Len(batches["a"])
    /\ bst["a"][b] = "resolved"
    /\ Len(batches["a"][b].queries) = 2
    /\ \A k \in 1..2 : tpc["a"][batches["a"][b].queries[k]] = "done"

\* C35: the result of a query is written when its own pipeline ends,
\* whatever state its siblings are in, and a row that holds a result
\* (completed or failed) is changed by no later step, of a sibling or of the
\* batch.
C35_WrittenResultIsKept ==
  [][\A q \in QIds :
       /\ (tpc["a"][q] = "saving" /\ tpc'["a"][q] = "done"
             /\ storeErrs' = storeErrs) =>
            /\ qStatus'[q] = tres["a"][q].status
            /\ qBrands'[q] = tres["a"][q].brands
            /\ qSites'[q] = tres["a"][q].sites
       /\ qStatus[q] \in {"completed", "failed"} =>
            /\ qStatus'[q] = qStatus[q]
            /\ qErrMsg'[q] = qErrMsg[q]
            /\ qBrands'[q] = qBrands[q]
            /\ qSites'[q] = qSites[q]
            /\ qWrites'[q] = qWrites[q]]_vars

\* One query of a batch has its result in the store, completed or failed,
\* while a sibling of the same batch is still processing, its pipeline under
\* way.
C35_Witness ==
  \E b \in BIds :
    /\ b \in 1..Len(batches["a"])
    /\ bst["a"][b] = "running"
    /\ \E q, s \in BatchQueries("a", b) :
         /\ tpc["a"][q] = "done"
         /\ qStatus[q] \in {"completed", "failed"}
         /\ tpc["a"][s] = "fetching"
         /\ qStatus[s] = "processing"

C37_RejectedBatchesDoNotFailAnalysis ==
  [][/\ pc["a"] = "roundWait" => pc'["a"] # "catch"
     /\ (pc'["a"] = "catch" /\ pc["a"] # "catch") =>
          (storeErrs' # storeErrs \/ nQueries = 0)
     /\ (/\ pc'["a"] \in {"returned", "threw"}
         /\ storeErrs' = 0
         /\ Len(batches'["a"]) >= 1
         /\ \A b \in 1..Len(batches'["a"]) : bst'["a"][b] = "rejected") =>
          (pc'["a"] = "returned" /\ aStatus' = "completed")]_vars

\* A run has returned with the analysis completed although every batch, of
\* more than one round, was rejected and every query is failed.
C37_Witness ==
  /\ pc["a"] = "returned"
  /\ aStatus = "completed"
  /\ Len(batches["a"]) >= 2
  /\ \A b \in 1..Len(batches["a"]) : bst["a"][b] = "rejected"
  /\ \A q \in Rows : qStatus[q] = "failed"

\* C38 (as claimed): the rank of a row processBatchQueries writes completed
\* is positive exactly when the validation is found = true with a position
\* that is neither null nor 0; in every other case rank and weight are 0.
C38_RankPositiveIffFoundWithPosition ==
  (BqSaved /\ bq.row.status = "completed") =>
    LET found == bq.validation.found /\ Truthy(bq.validation.position)
    IN /\ bq.row.focused_brand_rank > 0 <=> found
       /\ ~found => (bq.row.focused_brand_rank = 0 /\ bq.row.visibility = 0)

====
